---- MODULE Spec2Model ----
(***************************************************************************)
(* Model of mongeu: the campaign store (src/src/energy.rs), the request    *)
(* handlers and the garbage collector (src/src/main.rs), the replies to    *)
(* telemetry errors (src/src/replyify.rs) and the listen addresses of the  *)
(* network configuration (src/src/config.rs).                              *)
(*                                                                         *)
(* Time is counted in units of 60 s (one MIN_GC_TICK).  Campaign IDs are   *)
(* kept fixed-width: BMId is u32 in the source, the model uses IdBits bits *)
(* so that the wrap-around of the counter is reachable.  The elapsed time  *)
(* of a Measurement is not part of the model.                              *)
(***************************************************************************)
EXTENDS Integers, Sequences, FiniteSets, TLC

\* ---------------------------------------------------------------- bounds
\* the clock runs from 0 to MaxTime
MaxTime == 2
\* a device's cumulative energy counter takes the values 0..MaxEnergy
MaxEnergy == 1
\* devices the telemetry port enumerates
DeviceCount == 2
\* width of a campaign ID in bits (u32 in the source, narrowed)
IdBits == 1
\* entries of Network.listen
MaxListen == 2

\* ------------------------------------------------------ program constants
\* MIN_GC_TICK, 60 s, the unit of time of the model
MIN_GC_TICK == 1
\* gc_min_age, in units of time
MinAge == 1
\* gc_min_campaigns
MinCampaigns == 2
\* DEFAULT_LISTEN_PORT
DEFAULT_LISTEN_PORT == 80
\* the network-level port of the test network_toml_smoke
TestPort == 8080

Reqs == {"r1", "r2"}
GC == "gc"
None == "none"
NoId == 0 - 1
Tasks == Reqs \cup {GC}
Devices == 0 .. (DeviceCount - 1)

\* number of values of a BMId
IdMod == 2 ^ IdBits
BMId == 0 .. (IdMod - 1)

VARIABLES
    clock,      \* Instant::now()
    energy,     \* total_energy_consumption of every device
    next_id,    \* BaseMeasurements.next_id
    campaigns,  \* BaseMeasurements.campaigns
    writer,     \* holder of the RwLock's write guard
    readers,    \* holders of a read guard
    queue,      \* tasks waiting for the RwLock, in order of arrival
    req,        \* the request each connection is serving, and its reply
    gcpc,       \* position of collect_garbage
    gcNow,      \* `now` of collect_garbage's current cycle
    nextTick,   \* deadline of the interval timer
    permit,     \* the wakes gc_notify owes collect_garbage: to its waiter, and the permit
    issued,     \* the ID the last successful create returned, NoId before
    network,    \* config::Network
    addrs       \* the socket addresses listen_addrs has yielded

vars == <<clock, energy, next_id, campaigns, writer, readers, queue, req,
          gcpc, gcNow, nextTick, permit, issued, network, addrs>>

storeVars == <<next_id, campaigns>>
lockVars == <<writer, readers, queue>>
gcVars == <<gcpc, gcNow, nextTick, permit>>
envVars == <<clock, energy>>
cfgVars == <<network, addrs>>

Max(a, b) == IF a >= b THEN a ELSE b

\* a function restricted to a set of keys
Restrict(f, S) == [k \in S |-> f[k]]

\* ---------------------------------------------------------------- config
\* Option<u16>::None of ListenAddr.port
NoPort == 0 - 1
Ports == {DEFAULT_LISTEN_PORT, TestPort}
Ips == {"1.2.3.4", "5.6.7.8"}
\* ListenAddr
ListenAddrs == [ip : Ips, port : Ports \cup {NoPort}]

\* sequences over S of at most n items
SeqsUpTo(S, n) == UNION {[1 .. k -> S] : k \in 0 .. n}

\* ListenAddr::new
ListenAddrNew(ip) == [ip |-> ip, port |-> NoPort]

\* DEFAULT_LISTEN_ADDRS: the unspecified IPv4 and IPv6 addresses
DEFAULT_LISTEN_ADDRS == <<ListenAddrNew("0.0.0.0"), ListenAddrNew("::")>>

\* Network::default
NetworkDefault == [listen |-> DEFAULT_LISTEN_ADDRS, port |-> DEFAULT_LISTEN_PORT]

\* Option::unwrap_or
UnwrapOr(o, d) == IF o = NoPort THEN d ELSE o

\* a socket address that takes the default port whatever the entry says
SocketAddrDefaultOnly(l, default_port) == [ip |-> l.ip, port |-> default_port]

\* ListenAddr::socket_addr
SocketAddr(l, default_port) == [ip |-> l.ip, port |-> UnwrapOr(l.port, default_port)]

\* Network::listen_addrs, collected: self.listen.iter().map(socket_addr)
NetworkListenAddrs(net) ==
    [i \in 1 .. Len(net.listen) |-> SocketAddr(net.listen[i], net.port)]

\* ----------------------------------------------------------------- reply
\* the classes of NvmlError the replies tell apart; "Unknown" stands for
\* every variant the match of replyify leaves to its `_` arm
NvmlErrors == {"InvalidArg", "NotSupported", "Unknown"}
NvmlResults == {"ok"} \cup NvmlErrors

\* a mapping that answers 404 to InvalidArg alone
ReplyifyInvalidArgOnly(e) == IF e = "InvalidArg" THEN 404 ELSE 500

\* Replyify for NvmlError: the status of the reply
ReplyifyNvml(e) ==
    IF e = "InvalidArg" THEN 404
    ELSE IF e = "NotSupported" THEN 404
    ELSE 500

\* Replyify for anyhow::Error: the status of the reply
ReplyifyAnyhow(e) == 500

\* ---------------------------------------------------------------- notify
\* p counts the wakes the notifier owes collect_garbage, the one task that
\* calls notified(): the notification handed to its registered waiter and
\* the stored permit.  `waiting` says that collect_garbage is suspended in
\* select! with its waiter registered.

\* a notification that is lost when it is not taken at once
NotifyNoPermit(p, waiting) == p

\* a notifier that queues every notification
NotifyQueued(p, waiting) == p + 1

\* Notify::notify_one: a registered waiter that has no notification yet
\* gets this one; otherwise the notification is stored as the permit, and
\* there is one permit at most
NotifyOne(p, waiting) == IF waiting /\ p >= 1 THEN 2 ELSE 1

\* a create that notifies whether it succeeds or not
CreateNotifyAlways(ok, p, waiting) == NotifyOne(p, waiting)

\* energy_create: `c.create(..)?` returns before notify_one on a failure
CreateNotify(ok, p, waiting) == IF ok THEN NotifyOne(p, waiting) ELSE p

\* ------------------------------------------------------------- telemetry
\* what the telemetry answers to the device reads of one baseline: every
\* read succeeds (at = 0), or device number `at` is the first that fails, in
\* device_by_index or in total_energy_consumption; no later device is read
CreateOutcomes ==
    {[at |-> 0, kind |-> "ok"]} \cup
    {[at |-> i, kind |-> k] : i \in 1 .. DeviceCount, k \in {"device_err", "energy_err"}}
\* what the telemetry answers to one device's re-read
RelativeOutcomes == {"ok", "index_err", "energy_err"}

Ok(v) == [ok |-> TRUE, value |-> v, err |-> None]
Err(e) == [ok |-> FALSE, value |-> None, err |-> e]

\* a subtraction that does not saturate
PlainSub(a, b) == a - b

\* u64::saturating_sub
SaturatingSub(a, b) == IF a >= b THEN a - b ELSE 0

\* BaseDeviceData::relative: the delta of one device against its baseline
BaseDeviceDataRelative(base, out, en) ==
    IF out = "index_err" THEN Err("telemetry")
    ELSE IF out = "energy_err" THEN Err("telemetry")
    ELSE Ok([id |-> base.device, energy |-> SaturatingSub(en[base.device], base.energy)])

\* DeviceData::relative: the delta of one device against total device data
DeviceDataRelative(total, out, en) ==
    IF out # "ok" THEN Err("telemetry")
    ELSE Ok([id |-> total.id, energy |-> SaturatingSub(en[total.id], total.energy)])

\* device_by_index(i), then TryFrom<Device> for BaseDeviceData: the baseline
\* of one device
BaseDeviceDataTryFrom(d, out, en) ==
    IF out = "ok" THEN Ok([device |-> d, energy |-> en[d]]) ELSE Err("telemetry")

\* the answer to the read of device number i under the outcome outs
OutcomeAt(outs, i) == IF outs.at = i THEN outs.kind ELSE "ok"

\* BaseMeasurement::new: device_count, then one baseline per device, collected
\* into a Result: the first failure is the result
BaseMeasurementNew(countOk, outs, t, en) ==
    IF ~countOk THEN Err("telemetry")
    ELSE IF \E i \in 1 .. DeviceCount :
               ~BaseDeviceDataTryFrom(i - 1, OutcomeAt(outs, i), en).ok
         THEN Err("telemetry")
         ELSE Ok([time |-> t,
                  devices |-> [i \in 1 .. DeviceCount |->
                                 BaseDeviceDataTryFrom(i - 1, OutcomeAt(outs, i), en).value]])

\* ----------------------------------------------------------------- store
\* an increment that leaves the ID width
UncheckedAdd1(id) == id + 1

\* an increment that stops at the last ID
SaturatingAdd1(id) == IF id = IdMod - 1 THEN id ELSE id + 1

\* u32::wrapping_add(1)
WrappingAdd1(id) == (id + 1) % IdMod

\* a create that advances next_id before the baseline is built
StoreCreateIdFirst(nid, camps, countOk, outs, t, en) ==
    LET id == nid IN
    IF id \notin DOMAIN camps
    THEN LET base == BaseMeasurementNew(countOk, outs, t, en) IN
         IF base.ok
         THEN [ok |-> TRUE, id |-> id, err |-> None,
               next_id |-> (id + 1) % IdMod,
               campaigns |-> [k \in DOMAIN camps \cup {id} |->
                                IF k = id THEN base.value ELSE camps[k]]]
         ELSE [ok |-> FALSE, id |-> id, err |-> base.err,
               next_id |-> (id + 1) % IdMod, campaigns |-> camps]
    ELSE [ok |-> FALSE, id |-> id, err |-> "conflict",
          next_id |-> nid, campaigns |-> camps]

\* a create that inserts without looking at the entry
StoreCreateOverwrite(nid, camps, countOk, outs, t, en) ==
    LET id == nid
        base == BaseMeasurementNew(countOk, outs, t, en) IN
    IF base.ok
    THEN [ok |-> TRUE, id |-> id, err |-> None,
          next_id |-> (id + 1) % IdMod,
          campaigns |-> [k \in DOMAIN camps \cup {id} |->
                           IF k = id THEN base.value ELSE camps[k]]]
    ELSE [ok |-> FALSE, id |-> id, err |-> base.err,
          next_id |-> nid, campaigns |-> camps]

\* a create that fills the entry before the devices are read and leaves it
\* behind when a read fails
StoreCreateEntryFirst(nid, camps, countOk, outs, t, en) ==
    LET id == nid IN
    IF id \notin DOMAIN camps
    THEN LET base == BaseMeasurementNew(countOk, outs, t, en) IN
         IF base.ok
         THEN [ok |-> TRUE, id |-> id, err |-> None,
               next_id |-> WrappingAdd1(id),
               campaigns |-> [k \in DOMAIN camps \cup {id} |->
                                IF k = id THEN base.value ELSE camps[k]]]
         ELSE [ok |-> FALSE, id |-> id, err |-> base.err,
               next_id |-> nid,
               campaigns |-> [k \in DOMAIN camps \cup {id} |->
                                IF k = id THEN [time |-> t, devices |-> <<>>]
                                ELSE camps[k]]]
    ELSE [ok |-> FALSE, id |-> id, err |-> "conflict",
          next_id |-> nid, campaigns |-> camps]

\* a create that passes over an ID that is taken
StoreCreateSkipTaken(nid, camps, countOk, outs, t, en) ==
    LET id == nid IN
    IF id \notin DOMAIN camps
    THEN LET base == BaseMeasurementNew(countOk, outs, t, en) IN
         IF base.ok
         THEN [ok |-> TRUE, id |-> id, err |-> None,
               next_id |-> WrappingAdd1(id),
               campaigns |-> [k \in DOMAIN camps \cup {id} |->
                                IF k = id THEN base.value ELSE camps[k]]]
         ELSE [ok |-> FALSE, id |-> id, err |-> base.err,
               next_id |-> nid, campaigns |-> camps]
    ELSE [ok |-> FALSE, id |-> id, err |-> "conflict",
          next_id |-> WrappingAdd1(nid), campaigns |-> camps]

\* BaseMeasurements::create
StoreCreate(nid, camps, countOk, outs, t, en) ==
    LET id == nid IN
    IF id \notin DOMAIN camps
    THEN LET base == BaseMeasurementNew(countOk, outs, t, en) IN
         IF base.ok
         THEN [ok |-> TRUE, id |-> id, err |-> None,
               next_id |-> WrappingAdd1(id),
               campaigns |-> [k \in DOMAIN camps \cup {id} |->
                                IF k = id THEN base.value ELSE camps[k]]]
         ELSE [ok |-> FALSE, id |-> id, err |-> base.err,
               next_id |-> nid, campaigns |-> camps]
    ELSE [ok |-> FALSE, id |-> id, err |-> "conflict",
          next_id |-> nid, campaigns |-> camps]

\* a delete that empties the store
StoreDeleteAll(camps, id) == <<>>

\* BaseMeasurements::delete
StoreDelete(camps, id) == Restrict(camps, DOMAIN camps \ {id})

\* BaseMeasurements::delete_older_than: retain(|_, b| b.time < instant)
DeleteOlderThan(camps, instant) ==
    Restrict(camps, {k \in DOMAIN camps : camps[k].time < instant})

\* BaseMeasurements::len
StoreLen(camps) == Cardinality(DOMAIN camps)

\* ------------------------------------------------------------------ lock
\* an RwLock grants in order of arrival; a writer needs it free of everyone
WriteFree == writer = None /\ readers = {}
ReadFree == writer = None

\* no baseline
NoBase == [time |-> 0 - 1, devices |-> <<>>]

IdleReq == [kind |-> None, pc |-> "idle", id |-> 0, idx |-> 0, acc |-> <<>>,
            status |-> 0, err |-> None, base |-> NoBase]

CanStart(r) == req[r].pc \in {"idle", "done"}

Init ==
    /\ clock = 0
    /\ energy = [d \in Devices |-> 0]
    /\ next_id = 0
    /\ campaigns = <<>>
    /\ writer = None
    /\ readers = {}
    /\ queue = <<>>
    /\ req = [r \in Reqs |-> IdleReq]
    /\ gcpc = "idle"
    /\ gcNow = 0
    /\ nextTick = 0
    /\ permit = 0
    /\ issued = NoId
    /\ network = NetworkDefault
    /\ addrs = <<>>

\* ------------------------------------------------------------ environment
\* time passes
Tick ==
    /\ clock < MaxTime
    /\ clock' = clock + 1
    /\ UNCHANGED <<energy, storeVars, lockVars, req, gcVars, issued, cfgVars>>

\* a device's cumulative counter moves (up, or down on a counter reset)
DeviceCounter(d, v) ==
    /\ v # energy[d]
    /\ energy' = [energy EXCEPT ![d] = v]
    /\ UNCHANGED <<clock, storeVars, lockVars, req, gcVars, issued, cfgVars>>

\* ---------------------------------------------------------- POST /energy
\* a create whose closure runs without the campaigns_write filter
StartCreateNoGuard(r) ==
    /\ CanStart(r)
    /\ req' = [req EXCEPT ![r] = [IdleReq EXCEPT !.kind = "create", !.pc = "locked"]]
    /\ UNCHANGED <<envVars, storeVars, lockVars, gcVars, issued, cfgVars>>

\* the campaigns_write filter asks for the write guard
StartCreate(r) ==
    /\ CanStart(r)
    /\ req' = [req EXCEPT ![r] = [IdleReq EXCEPT !.kind = "create", !.pc = "waiting"]]
    /\ queue' = Append(queue, r)
    /\ UNCHANGED <<envVars, storeVars, writer, readers, gcVars, issued, cfgVars>>

\* write_owned() resolves
AcquireWrite(r) ==
    /\ req[r].pc = "waiting"
    /\ req[r].kind \in {"create", "delete"}
    /\ queue # <<>> /\ Head(queue) = r
    /\ WriteFree
    /\ writer' = r
    /\ queue' = Tail(queue)
    /\ req' = [req EXCEPT ![r].pc = "locked"]
    /\ UNCHANGED <<envVars, storeVars, readers, gcVars, issued, cfgVars>>

\* the closure of energy_create: c.create, notify_one, the redirect; the
\* guard is dropped when the closure returns
EnergyCreate(r, countOk, outs) ==
    /\ req[r].pc = "locked"
    /\ req[r].kind = "create"
    /\ LET res == StoreCreate(next_id, campaigns, countOk, outs, clock, energy) IN
        /\ next_id' = res.next_id
        /\ campaigns' = res.campaigns
        /\ permit' = CreateNotify(res.ok, permit, gcpc = "idle")
        /\ issued' = IF res.ok THEN res.id ELSE issued
        /\ req' = [req EXCEPT ![r] =
                     [IdleReq EXCEPT !.kind = "create", !.pc = "done", !.id = res.id,
                                     !.status = IF res.ok THEN 303
                                               ELSE ReplyifyAnyhow(res.err),
                                     !.err = res.err]]
    /\ writer' = None
    /\ UNCHANGED <<envVars, readers, queue, gcpc, gcNow, nextTick, cfgVars>>

\* The closure of energy_create statement by statement.  It is given the
\* write guard as its argument and runs to its end within one poll of the
\* connection's task.

\* some closure is between two of its statements
InClosure == \E r \in Reqs : req[r].pc \in {"inserted", "notified"}

\* `c.create(device_count, |i| ..)?`: the devices are read and the snapshot
\* is inserted; on an error `?` leaves the closure, which drops the guard
CreateInsert(r, countOk, outs) ==
    /\ req[r].pc = "locked"
    /\ req[r].kind = "create"
    /\ LET res == StoreCreate(next_id, campaigns, countOk, outs, clock, energy) IN
        /\ next_id' = res.next_id
        /\ campaigns' = res.campaigns
        /\ issued' = IF res.ok THEN res.id ELSE issued
        /\ req' = [req EXCEPT ![r] =
                     [IdleReq EXCEPT !.kind = "create", !.id = res.id,
                                     !.pc = IF res.ok THEN "inserted" ELSE "done",
                                     !.status = IF res.ok THEN 0
                                               ELSE ReplyifyAnyhow(res.err),
                                     !.err = res.err]]
        /\ writer' = IF res.ok THEN writer ELSE None
    /\ UNCHANGED <<envVars, readers, queue, gcVars, cfgVars>>

\* a closure that lets go of the guard as it notifies
CreateSignalDrop(r) ==
    /\ req[r].pc = "inserted"
    /\ permit' = NotifyOne(permit, gcpc = "idle")
    /\ req' = [req EXCEPT ![r].pc = "notified"]
    /\ writer' = None
    /\ UNCHANGED <<envVars, storeVars, readers, queue, gcpc, gcNow, nextTick,
                   issued, cfgVars>>

\* `gc_notify.notify_one()`
CreateSignal(r) ==
    /\ req[r].pc = "inserted"
    /\ permit' = NotifyOne(permit, gcpc = "idle")
    /\ req' = [req EXCEPT ![r].pc = "notified"]
    /\ UNCHANGED <<envVars, storeVars, lockVars, gcpc, gcNow, nextTick,
                   issued, cfgVars>>

\* the redirect is built and returned; the closure's argument, the guard,
\* is dropped at its end
CreateReturn(r) ==
    /\ req[r].pc = "notified"
    /\ req' = [req EXCEPT ![r].pc = "done", ![r].status = 303]
    /\ writer' = None
    /\ UNCHANGED <<envVars, storeVars, readers, queue, gcVars, issued, cfgVars>>

\* ---------------------------------------------------- DELETE /energy/{id}
StartDelete(r, id) ==
    /\ CanStart(r)
    /\ req' = [req EXCEPT ![r] =
                 [IdleReq EXCEPT !.kind = "delete", !.pc = "waiting", !.id = id]]
    /\ queue' = Append(queue, r)
    /\ UNCHANGED <<envVars, storeVars, writer, readers, gcVars, issued, cfgVars>>

\* a delete that hands the freed ID back to the allocator
EnergyDeleteReuse(r) ==
    /\ req[r].pc = "locked"
    /\ req[r].kind = "delete"
    /\ campaigns' = StoreDelete(campaigns, req[r].id)
    /\ next_id' = IF req[r].id \in DOMAIN campaigns THEN req[r].id ELSE next_id
    /\ req' = [req EXCEPT ![r].pc = "done",
                          ![r].status = IF req[r].id \in DOMAIN campaigns
                                        THEN 200 ELSE 404]
    /\ writer' = None
    /\ UNCHANGED <<envVars, readers, queue, gcVars, issued, cfgVars>>

\* the closure of energy_delete
EnergyDelete(r) ==
    /\ req[r].pc = "locked"
    /\ req[r].kind = "delete"
    /\ campaigns' = StoreDelete(campaigns, req[r].id)
    /\ req' = [req EXCEPT ![r].pc = "done",
                          ![r].status = IF req[r].id \in DOMAIN campaigns
                                        THEN 200 ELSE 404]
    /\ writer' = None
    /\ UNCHANGED <<envVars, next_id, readers, queue, gcVars, issued, cfgVars>>

\* ------------------------------------------------------- GET /energy/{id}
\* get_campaign asks for a read guard
StartMeasure(r, id) ==
    /\ CanStart(r)
    /\ req' = [req EXCEPT ![r] =
                 [IdleReq EXCEPT !.kind = "measure", !.pc = "waiting", !.id = id]]
    /\ queue' = Append(queue, r)
    /\ UNCHANGED <<envVars, storeVars, writer, readers, gcVars, issued, cfgVars>>

\* read_owned() resolves
AcquireRead(r) ==
    /\ req[r].pc = "waiting"
    /\ req[r].kind \in {"measure", "health"}
    /\ queue # <<>> /\ Head(queue) = r
    /\ ReadFree
    /\ readers' = readers \cup {r}
    /\ queue' = Tail(queue)
    /\ req' = [req EXCEPT ![r].pc = "locked"]
    /\ UNCHANGED <<envVars, storeVars, writer, gcVars, issued, cfgVars>>

\* a lookup that keeps the guard of a miss
MappedGuardKept(r, found) == readers

\* a lookup that gives the guard back once the campaign is found
MappedGuardDropped(r, found) == readers \ {r}

\* the guard of a measurement after get_campaign's try_map: the mapped guard
\* stays with the request until the reply is made
MappedGuard(r, found) == IF found THEN readers ELSE readers \ {r}

\* get_campaign's try_map(|c| c.get(id)): not_found drops the guard, a hit
\* narrows it to the campaign
GetCampaign(r) ==
    /\ req[r].pc = "locked"
    /\ req[r].kind = "measure"
    /\ LET found == req[r].id \in DOMAIN campaigns IN
        /\ readers' = MappedGuard(r, found)
        /\ req' = [req EXCEPT ![r] =
                     IF found
                     THEN [@ EXCEPT !.pc = "reading"]
                     ELSE [@ EXCEPT !.pc = "done", !.status = 404]]
    /\ UNCHANGED <<envVars, storeVars, writer, queue, gcVars, issued, cfgVars>>

\* a collection that leaves out the devices that fail
CollectSkip(acc, rel) ==
    IF rel.ok
    THEN [failed |-> FALSE, acc |-> Append(acc, rel.value), err |-> None]
    ELSE [failed |-> FALSE, acc |-> acc, err |-> None]

\* collect::<Result<_, _>>()?, one item: an Ok joins the list, the first Err
\* is the result of the whole measurement
Collect(acc, rel) ==
    IF rel.ok
    THEN [failed |-> FALSE, acc |-> Append(acc, rel.value), err |-> None]
    ELSE [failed |-> TRUE, acc |-> <<>>, err |-> rel.err]

\* a re-read that takes the reading as the campaign's new baseline
MeasureDeviceRebase(r, out) ==
    /\ req[r].pc = "reading"
    /\ req[r].kind = "measure"
    /\ req[r].id \in DOMAIN campaigns
    /\ LET base == campaigns[req[r].id]
           n == req[r].idx IN
        /\ n < Len(base.devices)
        /\ LET rel == BaseDeviceDataRelative(base.devices[n + 1], out, energy)
               got == Collect(req[r].acc, rel) IN
            IF ~got.failed
            THEN /\ req' = [req EXCEPT ![r].acc = got.acc, ![r].idx = n + 1]
                 /\ campaigns' = [campaigns EXCEPT
                       ![req[r].id].devices[n + 1].energy = energy[base.devices[n + 1].device]]
                 /\ UNCHANGED readers
            ELSE /\ req' = [req EXCEPT ![r].pc = "done", ![r].acc = got.acc,
                                       ![r].idx = n + 1,
                                       ![r].status = ReplyifyAnyhow(got.err),
                                       ![r].err = got.err]
                 /\ campaigns' = campaigns
                 /\ readers' = readers \ {r}
    /\ UNCHANGED <<envVars, next_id, writer, queue, gcVars, issued, cfgVars>>

\* BaseMeasurement::measurement, one device of self.devices.iter():
\* d.relative(), collected
MeasureDevice(r, out) ==
    /\ req[r].pc = "reading"
    /\ req[r].kind = "measure"
    /\ req[r].id \in DOMAIN campaigns
    /\ LET base == campaigns[req[r].id]
           n == req[r].idx IN
        /\ n < Len(base.devices)
        /\ LET rel == BaseDeviceDataRelative(base.devices[n + 1], out, energy)
               got == Collect(req[r].acc, rel) IN
            IF ~got.failed
            THEN /\ req' = [req EXCEPT ![r].acc = got.acc, ![r].idx = n + 1]
                 /\ UNCHANGED readers
            ELSE /\ req' = [req EXCEPT ![r].pc = "done", ![r].acc = got.acc,
                                       ![r].idx = n + 1,
                                       ![r].status = ReplyifyAnyhow(got.err),
                                       ![r].err = got.err]
                 /\ readers' = readers \ {r}
    /\ UNCHANGED <<envVars, storeVars, writer, queue, gcVars, issued, cfgVars>>

\* a reply that leaves the guard behind
MeasureReplyKeepGuard(r) ==
    /\ req[r].pc = "reading"
    /\ req[r].kind = "measure"
    /\ req[r].id \in DOMAIN campaigns
    /\ req[r].idx = Len(campaigns[req[r].id].devices)
    /\ req' = [req EXCEPT ![r].pc = "done", ![r].status = 200]
    /\ UNCHANGED <<envVars, storeVars, lockVars, gcVars, issued, cfgVars>>

\* BaseMeasurement::measurement, Ok(Measurement): the reply is made and the
\* guard is dropped
MeasureReply(r) ==
    /\ req[r].pc = "reading"
    /\ req[r].kind = "measure"
    /\ req[r].id \in DOMAIN campaigns
    /\ req[r].idx = Len(campaigns[req[r].id].devices)
    /\ req' = [req EXCEPT ![r].pc = "done", ![r].status = 200]
    /\ readers' = readers \ {r}
    /\ UNCHANGED <<envVars, storeVars, writer, queue, gcVars, issued, cfgVars>>

\* --------------------------------------------------- GET /energy?duration
\* a oneshot that keeps its baseline in the store, as a create does
EnergyOneshotStored(r, countOk, outs) ==
    /\ CanStart(r)
    /\ LET res == StoreCreate(next_id, campaigns, countOk, outs, clock, energy) IN
        /\ next_id' = res.next_id
        /\ campaigns' = res.campaigns
        /\ req' = [req EXCEPT ![r] =
                     IF res.ok
                     THEN [IdleReq EXCEPT !.kind = "oneshot", !.pc = "sleeping",
                                          !.base = res.campaigns[res.id]]
                     ELSE [IdleReq EXCEPT !.kind = "oneshot", !.pc = "done",
                                          !.status = ReplyifyAnyhow(res.err),
                                          !.err = res.err]]
    /\ UNCHANGED <<envVars, lockVars, gcVars, issued, cfgVars>>

\* energy_oneshot up to the sleep: BaseMeasurement::new, replyified when it
\* fails; the baseline is a local of the handler
EnergyOneshot(r, countOk, outs) ==
    /\ CanStart(r)
    /\ LET base == BaseMeasurementNew(countOk, outs, clock, energy) IN
        req' = [req EXCEPT ![r] =
                  IF base.ok
                  THEN [IdleReq EXCEPT !.kind = "oneshot", !.pc = "sleeping",
                                       !.base = base.value]
                  ELSE [IdleReq EXCEPT !.kind = "oneshot", !.pc = "done",
                                       !.status = ReplyifyAnyhow(base.err),
                                       !.err = base.err]]
    /\ UNCHANGED <<envVars, storeVars, lockVars, gcVars, issued, cfgVars>>

\* sleep(duration) is over; the duration is given in milliseconds, below the
\* unit of the clock
OneshotWake(r) ==
    /\ req[r].kind = "oneshot"
    /\ req[r].pc = "sleeping"
    /\ req' = [req EXCEPT ![r].pc = "reading"]
    /\ UNCHANGED <<envVars, storeVars, lockVars, gcVars, issued, cfgVars>>

\* base.measurement, one device of the handler's own baseline
OneshotDevice(r, out) ==
    /\ req[r].kind = "oneshot"
    /\ req[r].pc = "reading"
    /\ LET base == req[r].base
           n == req[r].idx IN
        /\ n < Len(base.devices)
        /\ LET rel == BaseDeviceDataRelative(base.devices[n + 1], out, energy)
               got == Collect(req[r].acc, rel) IN
            req' = [req EXCEPT ![r] =
                      IF ~got.failed
                      THEN [@ EXCEPT !.acc = got.acc, !.idx = n + 1]
                      ELSE [@ EXCEPT !.pc = "done", !.acc = got.acc, !.idx = n + 1,
                                     !.status = ReplyifyAnyhow(got.err),
                                     !.err = got.err]]
    /\ UNCHANGED <<envVars, storeVars, lockVars, gcVars, issued, cfgVars>>

\* base.measurement, Ok(Measurement): the reply
OneshotReply(r) ==
    /\ req[r].kind = "oneshot"
    /\ req[r].pc = "reading"
    /\ req[r].idx = Len(req[r].base.devices)
    /\ req' = [req EXCEPT ![r].pc = "done", ![r].status = 200]
    /\ UNCHANGED <<envVars, storeVars, lockVars, gcVars, issued, cfgVars>>

\* ------------------------------------------------------------ GET /health
\* the campaigns_read filter asks for a read guard
StartHealth(r) ==
    /\ CanStart(r)
    /\ req' = [req EXCEPT ![r] = [IdleReq EXCEPT !.kind = "health", !.pc = "waiting"]]
    /\ queue' = Append(queue, r)
    /\ UNCHANGED <<envVars, storeVars, writer, readers, gcVars, issued, cfgVars>>

\* the closure of the health route: the check's telemetry calls answer `out`
\* (the first error, or "ok"), every error is given a context and so replied
\* as an anyhow::Error; the guard is dropped when the closure returns
HealthCheck(r, out) ==
    /\ req[r].kind = "health"
    /\ req[r].pc = "locked"
    /\ req' = [req EXCEPT ![r] =
                 IF out = "ok"
                 THEN [@ EXCEPT !.pc = "done", !.status = 200]
                 ELSE [@ EXCEPT !.pc = "done", !.status = ReplyifyAnyhow(out),
                                !.err = out]]
    /\ readers' = readers \ {r}
    /\ UNCHANGED <<envVars, storeVars, writer, queue, gcVars, issued, cfgVars>>

\* ------------------------------------------------- GET /device_count, /device
DeviceEndpoints == {"name", "uuid", "serial", "power_usage"}

\* the device_count route: nvml.device_count(), replyified
DeviceCountReq(r, out) ==
    /\ CanStart(r)
    /\ req' = [req EXCEPT ![r] =
                 IF out = "ok"
                 THEN [IdleReq EXCEPT !.kind = "device_count", !.pc = "done",
                                      !.status = 200]
                 ELSE [IdleReq EXCEPT !.kind = "device_count", !.pc = "done",
                                      !.status = ReplyifyNvml(out), !.err = out]]
    /\ UNCHANGED <<envVars, storeVars, lockVars, gcVars, issued, cfgVars>>

\* with_device: the status and the error of the reply, `lookup` the answer of
\* device_by_index and `func` the answer of the device's call
WithDevice(lookup, func) ==
    IF lookup = "InvalidArg" THEN [status |-> 404, err |-> lookup]
    ELSE IF lookup # "ok" THEN [status |-> ReplyifyNvml(lookup), err |-> lookup]
    ELSE IF func # "ok" THEN [status |-> ReplyifyNvml(func), err |-> func]
    ELSE [status |-> 200, err |-> None]

\* the routes device/{index}/name, uuid, serial and power_usage
DeviceReq(r, e, lookup, func) ==
    /\ CanStart(r)
    /\ LET res == WithDevice(lookup, func) IN
        req' = [req EXCEPT ![r] =
                  [IdleReq EXCEPT !.kind = e, !.pc = "done",
                                  !.status = res.status, !.err = res.err]]
    /\ UNCHANGED <<envVars, storeVars, lockVars, gcVars, issued, cfgVars>>

\* ------------------------------------------------------- collect_garbage
\* period of the interval timer
TickDuration == Max(MinAge \div 4, MIN_GC_TICK)

\* MissedTickBehavior::Skip: the next deadline after a tick due at `due` that
\* is taken at `now`
NextDeadline(due, now) ==
    IF now > due
    THEN now + TickDuration - ((now - due) % TickDuration)
    ELSE due + TickDuration

\* select!: timer.tick() is ready; `now` is the tick's instant.  The
\* notified() future of the branch not taken is dropped: a notification it
\* had received goes back to the notifier, which keeps one permit at most
GcWakeTimer ==
    /\ gcpc = "idle"
    /\ clock >= nextTick
    /\ gcNow' = nextTick
    /\ nextTick' = NextDeadline(nextTick, clock)
    /\ gcpc' = "locking"
    /\ queue' = Append(queue, GC)
    /\ permit' = IF permit > 1 THEN 1 ELSE permit
    /\ UNCHANGED <<envVars, storeVars, writer, readers, req, issued, cfgVars>>

\* select!: notifier.notified() is ready; `now` is Instant::now()
GcWakeNotify ==
    /\ gcpc = "idle"
    /\ permit > 0
    /\ permit' = permit - 1
    /\ gcNow' = clock
    /\ gcpc' = "locking"
    /\ queue' = Append(queue, GC)
    /\ UNCHANGED <<envVars, storeVars, writer, readers, req, nextTick, issued, cfgVars>>

\* campaigns.write() resolves
GcAcquire ==
    /\ gcpc = "locking"
    /\ queue # <<>> /\ Head(queue) = GC
    /\ WriteFree
    /\ writer' = GC
    /\ queue' = Tail(queue)
    /\ gcpc' = "sweeping"
    /\ UNCHANGED <<envVars, storeVars, readers, req, gcNow, nextTick, permit, issued, cfgVars>>

\* a sweep on every wake
SweepAlways(count) == TRUE

\* if count >= min_campaigns.get()
SweepDue(count) == count >= MinCampaigns

\* a sweep whose cutoff is taken from the clock once the guard is held
GcSweepLockTime ==
    /\ gcpc = "sweeping"
    /\ LET count == StoreLen(campaigns) IN
        IF SweepDue(count)
        THEN campaigns' = DeleteOlderThan(campaigns, clock - MinAge)
        ELSE campaigns' = campaigns
    /\ writer' = None
    /\ gcpc' = "idle"
    /\ UNCHANGED <<envVars, next_id, readers, queue, req, gcNow, nextTick, permit,
                   issued, cfgVars>>

\* a cycle that ends with the guard still held
GcSweepKeepGuard ==
    /\ gcpc = "sweeping"
    /\ LET count == StoreLen(campaigns) IN
        IF SweepDue(count)
        THEN campaigns' = DeleteOlderThan(campaigns, gcNow - MinAge)
        ELSE campaigns' = campaigns
    /\ gcpc' = "idle"
    /\ UNCHANGED <<envVars, next_id, lockVars, req, gcNow, nextTick, permit,
                   issued, cfgVars>>

\* the count check, the sweep, and the end of the loop body, where the guard
\* is dropped
GcSweep ==
    /\ gcpc = "sweeping"
    /\ LET count == StoreLen(campaigns) IN
        IF SweepDue(count)
        THEN campaigns' = DeleteOlderThan(campaigns, gcNow - MinAge)
        ELSE campaigns' = campaigns
    /\ writer' = None
    /\ gcpc' = "idle"
    /\ UNCHANGED <<envVars, next_id, readers, queue, req, gcNow, nextTick, permit,
                   issued, cfgVars>>

\* ------------------------------------------------------------------ spec
\* the requests of the connections R
Requests(R) ==
    \/ \E r \in R : StartCreate(r)
    \/ \E r \in R : AcquireWrite(r)
    \/ \E r \in R, countOk \in BOOLEAN, outs \in CreateOutcomes :
          EnergyCreate(r, countOk, outs)
    \/ \E r \in R, id \in BMId : StartDelete(r, id)
    \/ \E r \in R : EnergyDelete(r)
    \/ \E r \in R, id \in BMId : StartMeasure(r, id)
    \/ \E r \in R : AcquireRead(r)
    \/ \E r \in R : GetCampaign(r)
    \/ \E r \in R, out \in RelativeOutcomes : MeasureDevice(r, out)
    \/ \E r \in R : MeasureReply(r)

CollectGarbage ==
    \/ GcWakeTimer
    \/ GcWakeNotify
    \/ GcAcquire
    \/ GcSweep

Devs == \E d \in Devices, v \in 0 .. MaxEnergy : DeviceCounter(d, v)

\* one connection, the collector and the clock
Next ==
    \/ Tick
    \/ Requests({"r1"})
    \/ CollectGarbage

Spec == Init /\ [][Next]_vars

\* two connections and the collector, at one instant
NextConc ==
    \/ Requests(Reqs)
    \/ CollectGarbage

SpecConc == Init /\ [][NextConc]_vars

\* two connections that create and delete, the closure of energy_create
\* statement by statement, and the collector; the runtime has one thread,
\* so no other task is polled while a closure runs
Closure(R) ==
    \/ \E r \in R, countOk \in BOOLEAN, outs \in CreateOutcomes :
          CreateInsert(r, countOk, outs)
    \/ \E r \in R : CreateSignal(r)
    \/ \E r \in R : CreateReturn(r)

BetweenPolls(R) ==
    \/ \E r \in R : StartCreate(r)
    \/ \E r \in R : AcquireWrite(r)
    \/ \E r \in R, id \in BMId : StartDelete(r, id)
    \/ \E r \in R : EnergyDelete(r)
    \/ CollectGarbage

NextSteps ==
    \/ Closure(Reqs)
    \/ ~InClosure /\ BetweenPolls(Reqs)

SpecSteps == Init /\ [][NextSteps]_vars

\* one connection, one campaign at a time, and the devices' counters
NextEnergy ==
    \/ Devs
    \/ StoreLen(campaigns) = 0 /\ StartCreate("r1")
    \/ AcquireWrite("r1")
    \/ \E countOk \in BOOLEAN, outs \in CreateOutcomes :
          EnergyCreate("r1", countOk, outs)
    \/ \E id \in BMId : StartDelete("r1", id)
    \/ EnergyDelete("r1")
    \/ \E id \in BMId : StartMeasure("r1", id)
    \/ AcquireRead("r1")
    \/ GetCampaign("r1")
    \/ \E out \in RelativeOutcomes : MeasureDevice("r1", out)
    \/ MeasureReply("r1")

SpecEnergy == Init /\ [][NextEnergy]_vars

\* the oneshot requests of the connections R
Oneshots(R) ==
    \/ \E r \in R, countOk \in BOOLEAN, outs \in CreateOutcomes :
          EnergyOneshot(r, countOk, outs)
    \/ \E r \in R : OneshotWake(r)
    \/ \E r \in R, out \in RelativeOutcomes : OneshotDevice(r, out)
    \/ \E r \in R : OneshotReply(r)

\* the health requests of the connections R
Healths(R) ==
    \/ \E r \in R : StartHealth(r)
    \/ \E r \in R : AcquireRead(r)
    \/ \E r \in R, out \in NvmlResults : HealthCheck(r, out)

\* a connection of campaign requests, a connection of oneshot and health
\* requests, and the collector
NextMixed ==
    \/ Requests({"r1"})
    \/ Oneshots({"r2"})
    \/ Healths({"r2"})
    \/ CollectGarbage

SpecMixed == Init /\ [][NextMixed]_vars

\* the steps of connection r's handler after the request has come in
Handler(r) ==
    \/ AcquireWrite(r)
    \/ \E countOk \in BOOLEAN, outs \in CreateOutcomes : EnergyCreate(r, countOk, outs)
    \/ EnergyDelete(r)
    \/ AcquireRead(r)
    \/ GetCampaign(r)
    \/ \E out \in RelativeOutcomes : MeasureDevice(r, out)
    \/ MeasureReply(r)
    \/ OneshotWake(r)
    \/ \E out \in RelativeOutcomes : OneshotDevice(r, out)
    \/ OneshotReply(r)
    \/ \E out \in NvmlResults : HealthCheck(r, out)

\* the runtime polls every task that is ready: a handler that can go on does,
\* a notified or granted collect_garbage goes on; the timer branch of
\* select! is under no obligation, time may stand still
Fairness ==
    /\ \A r \in Reqs : WF_vars(Handler(r))
    /\ WF_vars(GcWakeNotify \/ GcAcquire \/ GcSweep)

\* a connection of campaign and oneshot requests, a connection of health
\* requests, and the collector
NextLive ==
    \/ Requests({"r1"})
    \/ Oneshots({"r1"})
    \/ Healths({"r2"})
    \/ CollectGarbage

SpecLive == Init /\ [][NextLive]_vars /\ Fairness

\* the routes that reply to a telemetry error by its class
NextReply ==
    \/ \E r \in Reqs, out \in NvmlResults : DeviceCountReq(r, out)
    \/ \E r \in Reqs, e \in DeviceEndpoints, lookup \in NvmlResults, func \in NvmlResults :
          DeviceReq(r, e, lookup, func)
    \/ \E r \in Reqs : StartHealth(r)
    \/ \E r \in Reqs : AcquireRead(r)
    \/ \E r \in Reqs, out \in NvmlResults : HealthCheck(r, out)

SpecReply == Init /\ [][NextReply]_vars

\* Network::listen_addrs is called
ListenAddrsCall ==
    /\ addrs' = NetworkListenAddrs(network)
    /\ UNCHANGED <<envVars, storeVars, lockVars, req, gcVars, issued, network>>

\* a network configuration as the TOML file gives it
InitConfig ==
    /\ clock = 0
    /\ energy = [d \in Devices |-> 0]
    /\ next_id = 0
    /\ campaigns = <<>>
    /\ writer = None
    /\ readers = {}
    /\ queue = <<>>
    /\ req = [r \in Reqs |-> IdleReq]
    /\ gcpc = "idle"
    /\ gcNow = 0
    /\ nextTick = 0
    /\ permit = 0
    /\ issued = NoId
    /\ network \in [listen : SeqsUpTo(ListenAddrs, MaxListen), port : Ports]
    /\ addrs = <<>>

NextConfig == ListenAddrsCall

SpecConfig == InitConfig /\ [][NextConfig]_vars

TypeOK ==
    /\ clock \in 0 .. MaxTime
    /\ next_id \in BMId
    /\ DOMAIN campaigns \subseteq BMId
    /\ writer \in Tasks \cup {None}
    /\ readers \subseteq Reqs

\* ---------------------------------------------------------------- claims
\* the step in which a request's closure runs and replies
CreateStep(r) == req[r].kind = "create" /\ req[r].pc = "locked" /\ req'[r].pc = "done"
DeleteStep(r) == req[r].kind = "delete" /\ req[r].pc = "locked" /\ req'[r].pc = "done"
\* the step in which collect_garbage checks the count and sweeps
SweepStep == gcpc = "sweeping" /\ gcpc' = "idle"

Cutoffs == (0 - MinAge - 1) .. (MaxTime + 1)
Older(camps, k, instant) == camps[k].time < instant

\* C1: delete_older_than(cutoff) removes exactly the snapshots captured
\* strictly before cutoff and keeps all the others, for every store content
\* and every cutoff.
C1_DeleteOlderThanExact ==
    \A c \in Cutoffs :
        DeleteOlderThan(campaigns, c) =
            Restrict(campaigns, {k \in DOMAIN campaigns : ~Older(campaigns, k, c)})

\* C2: a campaign leaves the store only by a delete of its own ID or by a
\* sweep at whose wake time it is older than min_age.
C2_LeavesByDeleteOrAgedSweep ==
    [][\A k \in DOMAIN campaigns :
          k \notin DOMAIN campaigns' =>
             \/ \E r \in Reqs : DeleteStep(r) /\ req[r].id = k
             \/ SweepStep /\ Older(campaigns, k, gcNow - MinAge)]_vars

\* C3: in a sweep (count >= min_campaigns) a campaign captured exactly
\* min_age before the wake time stays, one captured a unit earlier goes.
C3_AgeBoundary ==
    [][(SweepStep /\ StoreLen(campaigns) >= MinCampaigns) =>
          \A k \in DOMAIN campaigns :
             /\ campaigns[k].time = gcNow - MinAge => k \in DOMAIN campaigns'
             /\ campaigns[k].time = gcNow - MinAge - 1 => k \notin DOMAIN campaigns']_vars

\* C4: a wake cycle of the collector that finds fewer than min_campaigns
\* campaigns leaves the store as it is, keys, snapshots and next ID.
C4_BelowThresholdNoChange ==
    [][(gcpc' # gcpc /\ ~(SweepStep /\ StoreLen(campaigns) >= MinCampaigns)) =>
          UNCHANGED <<campaigns, next_id>>]_vars

\* C4, witness: a cycle that woke after time 0 has ended; campaign 0, the
\* one campaign in the store, is older than min_age at the wake time.
C4_Witness ==
    /\ gcpc = "idle" /\ writer = None /\ gcNow > 0
    /\ issued = 0 /\ next_id = 1
    /\ DOMAIN campaigns = {0}
    /\ Older(campaigns, 0, gcNow - MinAge)

\* C5: the first successful create of a fresh store returns 0 and every
\* later one the ID returned before it plus 1, modulo the ID width.
C5_IdMonotonic ==
    [][\A r \in Reqs :
          (CreateStep(r) /\ req'[r].status = 303) =>
             req'[r].id = IF issued = NoId THEN 0 ELSE (issued + 1) % IdMod]_vars

\* C5, witness: two creates in a row, no campaign removed, the second has
\* just returned 1.
C5_Witness ==
    \E r \in Reqs :
        /\ req[r].kind = "create" /\ req[r].pc = "done" /\ req[r].status = 303
        /\ req[r].id = 1 /\ issued = 1
        /\ {0, 1} \subseteq DOMAIN campaigns

\* C6: a create whose device enumeration or device read fails answers an
\* error, leaves the store's keys and snapshots alone and consumes no ID:
\* next_id moves only in a successful create, which returns it.
C6_AtomicCreate ==
    [][/\ \A r \in Reqs :
             CreateStep(r) =>
                /\ req'[r].id = next_id
                /\ req'[r].err = "telemetry" =>
                      /\ req'[r].status = 500
                      /\ campaigns' = campaigns
                      /\ next_id' = next_id
       /\ next_id' # next_id =>
             \E r \in Reqs : CreateStep(r) /\ req'[r].status = 303]_vars

\* C6, witness: a create has just failed on the telemetry while a campaign
\* is in the store.
C6_Witness ==
    \E r \in Reqs :
        /\ req[r].kind = "create" /\ req[r].pc = "done"
        /\ req[r].status = 500 /\ req[r].err = "telemetry"
        /\ req[r].id = next_id /\ next_id = 1
        /\ DOMAIN campaigns = {0}

\* C7: a create whose ID is occupied by a live campaign fails with the
\* conflict error and leaves that campaign's snapshot as it is.
C7_Collision ==
    [][\A r \in Reqs :
          (CreateStep(r) /\ next_id \in DOMAIN campaigns) =>
             /\ req'[r].status = 500
             /\ req'[r].err = "conflict"
             /\ campaigns' = campaigns]_vars

\* C7, witness: a create has just failed with the conflict; the campaign
\* under its ID was captured at an earlier instant.
C7_Witness ==
    \E r \in Reqs :
        /\ req[r].kind = "create" /\ req[r].pc = "done"
        /\ req[r].status = 500 /\ req[r].err = "conflict"
        /\ req[r].id \in DOMAIN campaigns
        /\ campaigns[req[r].id].time < clock

\* C8: from the lookup to the reply of a measurement of campaign X the
\* request holds a read guard, nobody holds the write guard, and X is in the
\* store.
C8_MeasureIsolated ==
    \A r \in Reqs :
        (req[r].kind = "measure" /\ req[r].pc \in {"locked", "reading"}) =>
            /\ r \in readers
            /\ writer = None
            /\ req[r].pc = "reading" => req[r].id \in DOMAIN campaigns

\* C8, witness: a measurement of X has read a device while a delete of X
\* and the collector wait for the lock.
C8_Witness ==
    \E r \in Reqs, w \in Reqs :
        /\ req[r].kind = "measure" /\ req[r].pc = "reading" /\ req[r].idx >= 1
        /\ req[w].kind = "delete" /\ req[w].pc = "waiting" /\ req[w].id = req[r].id
        /\ gcpc = "locking"
        /\ StoreLen(campaigns) >= MinCampaigns

\* the delta the claim asks for
Delta(cur, base) == IF cur >= base THEN cur - base ELSE 0

\* C9: the delta of a device is current - baseline when current >= baseline
\* and 0 when current < baseline; it is never negative.  This holds of the
\* deltas a measurement collects and of DeviceData::relative.
C9_SaturatingDelta ==
    /\ [](\A d \in Devices, b \in 0 .. MaxEnergy :
            LET rel == DeviceDataRelative([id |-> d, energy |-> b], "ok", energy) IN
            /\ rel.ok
            /\ rel.value.id = d
            /\ rel.value.energy >= 0
            /\ rel.value.energy = Delta(energy[d], b))
    /\ [][\A r \in Reqs :
          (req[r].pc = "reading" /\ req'[r].pc = "reading" /\ req'[r].idx = req[r].idx + 1) =>
             LET n == req'[r].idx
                 b == campaigns[req[r].id].devices[n]
                 e == req'[r].acc[n]
                 cur == energy[b.device] IN
             /\ e.id = b.device
             /\ e.energy >= 0
             /\ e.energy = Delta(cur, b.energy)]_vars

\* C9, witness: a measurement has answered 0 for a device whose counter is
\* below its baseline and a positive delta for another device.
C9_Witness ==
    \E r \in Reqs :
        /\ req[r].kind = "measure" /\ req[r].pc = "done" /\ req[r].status = 200
        /\ req[r].id \in DOMAIN campaigns
        /\ \E i \in 1 .. Len(req[r].acc) :
              /\ campaigns[req[r].id].devices[i].energy > energy[req[r].acc[i].id]
              /\ req[r].acc[i].energy = 0
        /\ \E j \in 1 .. Len(req[r].acc) : req[r].acc[j].energy > 0

\* C10: a measurement either fails as a whole, with no list, or answers one
\* entry for every device of the baseline, in the order of the baseline.
C10_AllOrNothing ==
    [][\A r \in Reqs :
          (req[r].kind = "measure" /\ req[r].pc = "reading" /\ req'[r] # req[r]) =>
             LET base == campaigns[req[r].id].devices IN
             \/ /\ req'[r].pc = "reading"
                /\ req'[r].idx = req[r].idx + 1
                /\ Len(req'[r].acc) = req'[r].idx
                /\ SubSeq(req'[r].acc, 1, req[r].idx) = req[r].acc
                /\ req'[r].acc[req'[r].idx].id = base[req'[r].idx].device
             \/ /\ req'[r].pc = "done"
                /\ req'[r].status = 500
                /\ req'[r].acc = <<>>
             \/ /\ req'[r].pc = "done"
                /\ req'[r].status = 200
                /\ Len(req'[r].acc) = Len(base)
                /\ \A i \in 1 .. Len(base) : req'[r].acc[i].id = base[i].device]_vars

\* C10, witness: a measurement has failed on its second device, after a
\* first device was read, and its answer holds no list.
C10_Witness ==
    \E r \in Reqs :
        /\ req[r].kind = "measure" /\ req[r].pc = "done"
        /\ req[r].status = 500 /\ req[r].err = "telemetry"
        /\ req[r].idx = 2 /\ req[r].acc = <<>>
        /\ req[r].id \in DOMAIN campaigns

\* the step in which get_campaign looks the ID up
LookupStep(r) == req[r].kind = "measure" /\ req[r].pc = "locked" /\ req'[r].pc # "locked"

\* C11: a delete of an ID in the store answers 200, removes that campaign
\* and leaves every other campaign and next_id as they are; while the ID is
\* out of the store a measure or a delete of it answers 404, and the ID
\* comes back only by a create that returns it.
C11_DeleteLive ==
    [][/\ \A r \in Reqs :
             (DeleteStep(r) /\ req[r].id \in DOMAIN campaigns) =>
                /\ req'[r].status = 200
                /\ DOMAIN campaigns' = DOMAIN campaigns \ {req[r].id}
                /\ \A k \in DOMAIN campaigns' : campaigns'[k] = campaigns[k]
                /\ next_id' = next_id
       /\ \A r \in Reqs :
             ((DeleteStep(r) \/ LookupStep(r)) /\ req[r].id \notin DOMAIN campaigns) =>
                (req'[r].pc = "done" /\ req'[r].status = 404)
       /\ \A k \in BMId :
             (k \notin DOMAIN campaigns /\ k \in DOMAIN campaigns') =>
                \E r \in Reqs :
                   CreateStep(r) /\ req'[r].status = 303 /\ req'[r].id = k]_vars

\* C11, witness: a measure or a delete of the ID issued last has answered
\* 404 while an earlier campaign is still in the store; the clock stands at
\* 0, where a sweep empties the store, so the ID left by a delete, which
\* answered before this request came in.
C11_Witness ==
    \E r \in Reqs :
        /\ req[r].kind \in {"measure", "delete"} /\ req[r].pc = "done"
        /\ req[r].status = 404 /\ req[r].id = issued
        /\ issued \notin DOMAIN campaigns
        /\ StoreLen(campaigns) = 1
        /\ clock = 0

\* C12: a measure or a delete of an ID that is not in the store answers
\* 404 and leaves campaigns and next_id as they are; a request that has
\* answered holds neither a read guard nor the write guard.
C12_UnknownId ==
    /\ [](\A r \in Reqs :
            req[r].pc \in {"idle", "done"} => (r \notin readers /\ writer # r))
    /\ [][\A r \in Reqs :
            ((DeleteStep(r) \/ LookupStep(r)) /\ req[r].id \notin DOMAIN campaigns) =>
               /\ req'[r].pc = "done"
               /\ req'[r].status = 404
               /\ UNCHANGED <<campaigns, next_id>>
               /\ r \notin readers'
               /\ writer' # r]_vars

\* C12, witness: a measure of ID 1, which is not in the store, has answered
\* 404; campaign 0 is in the store, the next ID is 1 and the lock is free.
C12_Witness ==
    \E r \in Reqs :
        /\ req[r].kind = "measure" /\ req[r].pc = "done" /\ req[r].status = 404
        /\ req[r].id = 1
        /\ DOMAIN campaigns = {0} /\ next_id = 1
        /\ writer = None /\ readers = {}

\* a step of a oneshot request: the baseline, the end of the wait, a device
\* read or the reply
OneshotStep(r) == req'[r] # req[r] /\ req'[r].kind = "oneshot"

\* C13: no step of a oneshot request, from its baseline to its reply,
\* failed or not, changes the store's campaigns or next_id or takes the
\* lock; the store changes only in a create, a delete or a sweep, so the
\* baseline of a oneshot is never an entry of the store.
C13_OneshotStateless ==
    [][/\ \A r \in Reqs :
             OneshotStep(r) => UNCHANGED <<campaigns, next_id, writer, readers, queue>>
       /\ (campaigns' # campaigns \/ next_id' # next_id) =>
             \/ \E r \in Reqs : CreateStep(r) \/ DeleteStep(r)
             \/ SweepStep]_vars

\* C13, witness: a oneshot has answered its deltas while campaign 0, created
\* on the other connection, is the one entry of the store and the next ID
\* is 1.
C13_Witness ==
    \E r \in Reqs :
        /\ req[r].kind = "oneshot" /\ req[r].pc = "done" /\ req[r].status = 200
        /\ Len(req[r].acc) = DeviceCount
        /\ DOMAIN campaigns = {0} /\ next_id = 1 /\ issued = 0

\* the step in which collect_garbage takes the notification
NotifiedStep ==
    /\ gcpc = "idle" /\ gcpc' = "locking"
    /\ nextTick' = nextTick /\ permit' = permit - 1

\* the step in which collect_garbage wakes, by the timer or the notifier
GcWakeStep == gcpc = "idle" /\ gcpc' = "locking"

\* C14: a create that succeeds leaves the notifier owing a wake, and no
\* other step of a request (a failed create, a delete, a measurement, a
\* oneshot, a health check) touches the notifier: a notification is added
\* by a successful create only and taken by the collector's wake only.
C14_NotifyOnCreate ==
    [][/\ \A r \in Reqs : (CreateStep(r) /\ req'[r].status = 303) => permit' >= 1
       /\ permit' > permit =>
             \E r \in Reqs : CreateStep(r) /\ req'[r].status = 303
       /\ permit' < permit => GcWakeStep]_vars

\* C14, witness: a create has failed and a oneshot has answered after the
\* collector took the notification of an earlier create; no permit is
\* stored.
C14_Witness ==
    \E r \in Reqs, q \in Reqs :
        /\ req[r].kind = "create" /\ req[r].pc = "done" /\ req[r].status = 500
        /\ req[q].kind = "oneshot" /\ req[q].pc = "done"
        /\ issued = 0 /\ DOMAIN campaigns = {0}
        /\ permit = 0 /\ gcpc = "idle"

\* C15: a successful create leaves the notifier owing a wake, whatever the
\* collector is doing; what the notifier owes is taken by the collector's
\* wake only; a collector that is owed a wake while it waits in select!
\* wakes, and a collector that has woken gets the write guard, checks the
\* count and returns to select!.  So a wake cycle that begins after the
\* create's insertion follows every successful create.
C15_NoLostWake ==
    /\ [][/\ \A r \in Reqs : (CreateStep(r) /\ req'[r].status = 303) => permit' >= 1
          /\ permit' < permit => GcWakeStep]_vars
    /\ (gcpc = "idle" /\ permit >= 1) ~> (gcpc = "locking")
    /\ (gcpc = "locking") ~> (gcpc = "idle")

\* C15, witness: a create has just inserted campaign 0 and notified while
\* the collector, woken before, waits for the lock.
C15_Witness ==
    \E r \in Reqs :
        /\ req[r].kind = "create" /\ req[r].pc = "done" /\ req[r].status = 303
        /\ DOMAIN campaigns = {0}
        /\ permit = 1
        /\ gcpc = "locking" /\ Head(queue) = GC

\* the step in which a request replies to a telemetry error
ErrorReply(r) == req'[r] # req[r] /\ req'[r].pc = "done" /\ req'[r].err \in NvmlErrors

\* the routes that replyify the NvmlError itself
DirectRoutes == {"device_count"} \cup DeviceEndpoints

\* C16, as claimed: a request that meets a telemetry error answers 404 when
\* the error is InvalidArg and 500 when it is any other error.
C16_InvalidArgOnly404 ==
    [][\A r \in Reqs :
          ErrorReply(r) =>
             req'[r].status = IF req'[r].err = "InvalidArg" THEN 404 ELSE 500]_vars

\* C16, amended: the routes that reply to the NvmlError itself (device_count
\* and device/{index}/..) answer 404 to InvalidArg and to NotSupported and 500
\* to every other error; a route that wraps the error in an anyhow::Error
\* (health) answers 500 to every error, InvalidArg included.
C16_ErrorMapping ==
    [][\A r \in Reqs :
          ErrorReply(r) =>
             /\ req'[r].kind \in DirectRoutes =>
                   req'[r].status =
                      IF req'[r].err \in {"InvalidArg", "NotSupported"} THEN 404 ELSE 500
             /\ req'[r].kind = "health" => req'[r].status = 500]_vars

\* C16, witness: a device route has answered 404 to NotSupported and the
\* health route 500 to InvalidArg.
C16_Witness ==
    \E r \in Reqs, q \in Reqs :
        /\ req[r].kind \in DeviceEndpoints /\ req[r].pc = "done"
        /\ req[r].err = "NotSupported" /\ req[r].status = 404
        /\ req[q].kind = "health" /\ req[q].pc = "done"
        /\ req[q].err = "InvalidArg" /\ req[q].status = 500

\* a step of a measurement, from the request to the reply
MeasureStep(r) == req'[r] # req[r] /\ req'[r].kind = "measure"

\* C17: no step of a measurement changes campaigns or next_id; a create
\* captures the clock and the devices' readings of its instant, a campaign's
\* snapshot stays as captured for as long as it is in the store, and every
\* delta a measurement collects is taken against that snapshot.
C17_FrozenBaseline ==
    [][/\ \A r \in Reqs : MeasureStep(r) => UNCHANGED <<campaigns, next_id>>
       /\ \A r \in Reqs :
             (CreateStep(r) /\ req'[r].status = 303) =>
                LET b == campaigns'[req'[r].id] IN
                /\ b.time = clock
                /\ Len(b.devices) = DeviceCount
                /\ \A i \in 1 .. DeviceCount :
                      b.devices[i] = [device |-> i - 1, energy |-> energy[i - 1]]
       /\ \A k \in DOMAIN campaigns \cap DOMAIN campaigns' : campaigns'[k] = campaigns[k]
       /\ \A r \in Reqs :
             (req[r].kind = "measure" /\ req[r].pc = "reading"
                 /\ req'[r].pc = "reading" /\ req'[r].idx = req[r].idx + 1) =>
                LET n == req'[r].idx
                    b == campaigns[req[r].id].devices[n] IN
                req'[r].acc[n] = [id |-> b.device,
                                  energy |-> Delta(energy[b.device], b.energy)]]_vars

\* C17, witness: a measurement has answered a positive delta for a device
\* and the campaign still holds the reading 0 captured at its creation,
\* below the device's counter.
C17_Witness ==
    \E r \in Reqs :
        /\ req[r].kind = "measure" /\ req[r].pc = "done" /\ req[r].status = 200
        /\ req[r].id \in DOMAIN campaigns
        /\ \E i \in 1 .. DeviceCount :
              /\ req[r].acc[i].energy > 0
              /\ campaigns[req[r].id].devices[i].energy = 0
              /\ energy[i - 1] > 0

\* C18: listen_addrs yields one socket address per listen entry, in the
\* order of the entries, with the entry's IP and the entry's own port when
\* it has one, the network's port otherwise.
C18_ListenAddrs ==
    addrs # <<>> =>
        /\ Len(addrs) = Len(network.listen)
        /\ \A i \in 1 .. Len(addrs) :
              /\ addrs[i].ip = network.listen[i].ip
              /\ addrs[i].port = IF network.listen[i].port # NoPort
                                 THEN network.listen[i].port
                                 ELSE network.port

\* C18, witness: the configuration of the test network_toml_smoke, port
\* 8080, 1.2.3.4 with port 80 and 5.6.7.8 without a port, has yielded
\* 1.2.3.4:80 and 5.6.7.8:8080.
C18_Witness ==
    /\ network = [listen |-> <<[ip |-> "1.2.3.4", port |-> DEFAULT_LISTEN_PORT],
                               [ip |-> "5.6.7.8", port |-> NoPort]>>,
                  port |-> TestPort]
    /\ addrs = <<[ip |-> "1.2.3.4", port |-> 80], [ip |-> "5.6.7.8", port |-> 8080]>>

\* C19: collect_garbage holds the write guard exactly from the grant of
\* campaigns.write() to the end of that cycle: waiting on the timer or the
\* notification, and waiting for the lock, it holds nothing, and the step
\* that ends a cycle, swept or not, releases the guard.
C19_IdleHoldsNoLock ==
    /\ [](gcpc \in {"idle", "locking"} => (writer # GC /\ GC \notin readers))
    /\ [](gcpc = "sweeping" => writer = GC)
    /\ [][SweepStep => (writer = GC /\ writer' = None)]_vars

\* C19, witness: after a cycle that woke past time 0 has ended the
\* collector is idle and a request holds the write guard.
C19_Witness ==
    /\ gcpc = "idle" /\ nextTick > 1 /\ gcNow > 0
    /\ writer \in Reqs
    /\ StoreLen(campaigns) >= MinCampaigns

\* a task waits for the lock
Blocked == queue # <<>>

\* C20: whatever requests and cycles are interleaved, while a task waits for
\* the lock some handler or the collector can take a step (no deadlock), and
\* a collector that has woken, by the timer or by the notification, gets the
\* write guard, ends its cycle and is idle again without the guard.
C20_GcNeverStuck ==
    /\ [](Blocked =>
            ENABLED (GcAcquire \/ GcSweep \/ \E r \in Reqs : Handler(r)))
    /\ (gcpc # "idle") ~> (gcpc = "idle" /\ writer # GC)

\* C20, witness: the collector waits for the lock behind a health check
\* that holds a read guard, and a delete waits behind the collector.
C20_Witness ==
    \E r \in Reqs, q \in Reqs :
        /\ req[r].kind = "health" /\ req[r].pc = "locked" /\ r \in readers
        /\ gcpc = "locking"
        /\ req[q].kind = "delete" /\ req[q].pc = "waiting"
        /\ queue = <<GC, q>>

\* ------------------------------------------------ the closure, by statement
\* r has asked for the write lock and has not been given it yet
Queued(r) == \E i \in 1 .. Len(queue) : queue[i] = r
\* the step in which a create reads the devices and builds its snapshot
BuildStep(r) ==
    /\ req[r].kind = "create" /\ req[r].pc = "locked"
    /\ req'[r].pc \in {"inserted", "done"}
\* the step in which a create notifies the collector
SignalStep(r) == req[r].pc = "inserted" /\ req'[r].pc = "notified"
\* the step in which a create that succeeds lets go of the write guard
ReleaseStep(r) ==
    /\ req[r].kind = "create" /\ writer = r /\ writer' # r
    /\ req'[r].status = 303

\* C21, as stated: a create reads the devices and builds its snapshot
\* before it has asked for the write lock, so it never holds the write guard
\* in the step that reads the devices.
C21_BuiltBeforeLock ==
    [][\A r \in Reqs : BuildStep(r) => (writer # r /\ ~Queued(r))]_vars

\* C21: a create asks for the write lock first and reads the devices only
\* once it holds the write guard; the snapshot is built and inserted in one
\* statement under the guard, the store changes in no other step of a
\* create, and a create that waits for the lock has read no device.
C21_BuiltUnderGuard ==
    [][\A r \in Reqs :
          /\ BuildStep(r) => (writer = r /\ readers = {} /\ ~Queued(r))
          /\ (req[r].kind = "create" /\ req'[r] # req[r] /\ ~BuildStep(r))
                => UNCHANGED <<storeVars, issued>>]_vars

\* C21, witness: a create has built and inserted campaign 0 and still holds
\* the write guard, while the other connection's create waits for the lock.
C21_Witness ==
    \E r \in Reqs, q \in Reqs :
        /\ req[r].kind = "create" /\ req[r].pc = "inserted" /\ req[r].id = 0
        /\ writer = r /\ DOMAIN campaigns = {0}
        /\ req[q].kind = "create" /\ req[q].pc = "waiting" /\ queue = <<q>>

\* C22, as stated: a successful create lets go of the write guard before it
\* notifies the collector, so the notification is never fired by a create
\* that holds the write guard.
C22_SignalAfterRelease ==
    [][\A r \in Reqs : SignalStep(r) => writer # r]_vars

\* C22: a successful create inserts its snapshot, then notifies the
\* collector while it still holds the write guard, and lets go of the guard
\* only after that, when its closure returns; no other task takes a step
\* between the notification and the release.
C22_SignalUnderGuard ==
    [][\A r \in Reqs :
          /\ SignalStep(r) =>
                /\ writer = r /\ writer' = r
                /\ req[r].id \in DOMAIN campaigns /\ issued = req[r].id
          /\ ReleaseStep(r) => req[r].pc = "notified"
          /\ req[r].pc = "notified" => ReleaseStep(r)]_vars

\* C22, witness: a create has inserted campaign 0 and notified the
\* collector, which waits in select!, and still holds the write guard.
C22_Witness ==
    \E r \in Reqs :
        /\ req[r].kind = "create" /\ req[r].pc = "notified" /\ req[r].id = 0
        /\ writer = r /\ DOMAIN campaigns = {0}
        /\ permit = 1 /\ gcpc = "idle"

\* C23: while the collector is not waiting in select! (it has woken and has
\* not ended its cycle) the notifier holds one pending wake at most: every
\* notification fired meanwhile, the first as the k-th, leaves exactly one,
\* which the cycle itself does not take.  A wake by the notifier takes
\* exactly one pending wake, so these k notifications cause one wake cycle;
\* the notifier never holds more than its one permit besides the
\* notification of the registered waiter.
C23_Coalesced ==
    /\ [](permit \in 0 .. 2 /\ (gcpc # "idle" => permit <= 1))
    /\ [][/\ \A r \in Reqs : (SignalStep(r) /\ gcpc # "idle") => permit' = 1
          /\ NotifiedStep => (permit >= 1 /\ permit' = permit - 1)
          /\ (gcpc # "idle" /\ gcpc' # "idle") => permit' >= permit
          /\ SweepStep => permit' = permit]_vars

\* C23, witness: the collector has woken and waits for the lock behind two
\* creates; the first has answered, the second has just notified from its
\* closure, and one wake is pending.
C23_Witness ==
    \E r \in Reqs, q \in Reqs :
        /\ req[r].kind = "create" /\ req[r].pc = "done" /\ req[r].status = 303
        /\ req[r].id = 0
        /\ req[q].kind = "create" /\ req[q].pc = "notified" /\ req[q].id = 1
        /\ DOMAIN campaigns = {0, 1}
        /\ gcpc = "locking" /\ queue = <<GC>> /\ writer = q
        /\ permit = 1

\* C24: `now` of a cycle is fixed by the wake, to the instant of the tick
\* when the timer woke the collector and to the clock's reading when the
\* notifier did, and it is not touched until the next wake, however long the
\* collector waits for the lock.  The sweep step, which holds the write
\* guard, counts the campaigns the store has in that step and, when the
\* count reaches min_campaigns, calls delete_older_than(now - min_age).
C24_CutoffFromWake ==
    [][/\ NotifiedStep => gcNow' = clock
       /\ (GcWakeStep /\ ~NotifiedStep) => (gcNow' = nextTick /\ nextTick <= clock)
       /\ gcNow' # gcNow => GcWakeStep
       /\ SweepStep =>
             /\ writer = GC
             /\ campaigns' = IF StoreLen(campaigns) >= MinCampaigns
                             THEN DeleteOlderThan(campaigns, gcNow - MinAge)
                             ELSE campaigns]_vars

\* C24, witness: the collector holds the write guard for a sweep that is
\* due; the clock has moved on since its wake, and a cutoff taken from the
\* clock now would sweep differently.
C24_Witness ==
    /\ gcpc = "sweeping" /\ writer = GC
    /\ gcNow < clock
    /\ StoreLen(campaigns) >= MinCampaigns
    /\ DeleteOlderThan(campaigns, gcNow - MinAge)
          # DeleteOlderThan(campaigns, clock - MinAge)

\* the snapshot a create that succeeds in this step builds
BuiltNow ==
    [time |-> clock,
     devices |-> [i \in 1 .. DeviceCount |-> [device |-> i - 1, energy |-> energy[i - 1]]]]

\* C25: a key comes into the store only by a create that succeeds and
\* returns it, with the snapshot that create built; it keeps that snapshot
\* unchanged as long as it is in the store, and it leaves only by a delete
\* of it or by a sweep.  So every key of the store was returned by a create
\* and not removed since, and maps to the snapshot of that create: one of an
\* instant that has been, with one entry per device.
C25_StoreKeys ==
    /\ [](\A k \in DOMAIN campaigns :
             /\ k \in BMId /\ issued # NoId
             /\ campaigns[k].time \in 0 .. clock
             /\ Len(campaigns[k].devices) = DeviceCount)
    /\ [][\A k \in BMId :
             /\ (k \notin DOMAIN campaigns /\ k \in DOMAIN campaigns') =>
                   /\ \E r \in Reqs : /\ CreateStep(r) /\ req'[r].status = 303
                                      /\ req'[r].id = k
                   /\ campaigns'[k] = BuiltNow
             /\ (k \in DOMAIN campaigns /\ k \in DOMAIN campaigns') =>
                   campaigns'[k] = campaigns[k]
             /\ (k \in DOMAIN campaigns /\ k \notin DOMAIN campaigns') =>
                   \/ \E r \in Reqs : DeleteStep(r) /\ req[r].id = k
                   \/ SweepStep
             /\ \A r \in Reqs : (CreateStep(r) /\ req'[r].id = k /\ req'[r].status # 303)
                   => UNCHANGED campaigns]_vars

\* C25, witness: campaigns 0 and 1 were created at the instants 0 and 1;
\* campaign 0 has been deleted since, and the store holds key 1 only, with
\* the snapshot of instant 1.
C25_Witness ==
    \E r \in Reqs :
        /\ req[r].kind = "delete" /\ req[r].pc = "done" /\ req[r].status = 200
        /\ req[r].id = 0 /\ issued = 1
        /\ DOMAIN campaigns = {1} /\ campaigns[1].time = 1 /\ clock = 2

\* C26: a delete and a sweep leave next_id as it is, and next_id moves only
\* in a create that succeeds.  So a create that succeeds returns the
\* successor of the ID issued last, whatever has been freed meanwhile: never
\* the ID issued last, and an ID at or below it only when the ID issued last
\* was the greatest, that is, when the counter wraps.
C26_NoEarlyReuse ==
    [][/\ ((\E r \in Reqs : DeleteStep(r)) \/ SweepStep) => next_id' = next_id
       /\ next_id' # next_id =>
             \E r \in Reqs : CreateStep(r) /\ req'[r].status = 303
       /\ \A r \in Reqs :
             (CreateStep(r) /\ req'[r].status = 303 /\ issued # NoId) =>
                /\ req'[r].id = (issued + 1) % IdMod
                /\ req'[r].id # issued
                /\ req'[r].id <= issued => (issued = IdMod - 1 /\ req'[r].id = 0)]_vars

\* C26, witness: at instant 0, where a sweep empties the store, a create
\* has returned 1 and campaign 1 is alone in the store: ID 0 had been freed
\* by a delete when the create ran, and was not issued again.
C26_Witness ==
    \E r \in Reqs :
        /\ req[r].kind = "create" /\ req[r].pc = "done" /\ req[r].status = 303
        /\ req[r].id = 1 /\ issued = 1
        /\ DOMAIN campaigns = {1} /\ clock = 0

\* the greatest ID of the counter's width
MaxId == IdMod - 1

\* C27: with next_id at the greatest ID, a create that succeeds returns the
\* greatest ID and leaves next_id at 0, and such a create fails on the
\* telemetry only, never on the increment.  The create after it, with
\* next_id at 0, fails with the conflict and changes nothing when campaign 0
\* is in the store, and otherwise does not meet the conflict and returns 0
\* when it succeeds.
C27_Wraparound ==
    [][\A r \in Reqs : CreateStep(r) =>
          /\ (next_id = MaxId /\ req'[r].status = 303) =>
                (req'[r].id = MaxId /\ next_id' = 0 /\ MaxId \in DOMAIN campaigns')
          /\ (next_id = MaxId /\ MaxId \notin DOMAIN campaigns /\ req'[r].status # 303) =>
                (req'[r].err = "telemetry" /\ next_id' = MaxId)
          /\ (next_id = 0 /\ issued = MaxId /\ 0 \in DOMAIN campaigns) =>
                /\ req'[r].status = 500 /\ req'[r].err = "conflict"
                /\ UNCHANGED storeVars
          /\ (next_id = 0 /\ issued = MaxId /\ 0 \notin DOMAIN campaigns) =>
                /\ req'[r].err # "conflict"
                /\ req'[r].status = 303 => (req'[r].id = 0 /\ 0 \in DOMAIN campaigns')]_vars

\* C27, witness: a create has returned 0 while the campaign of the greatest
\* ID, captured at an earlier instant, is in the store: the counter has
\* wrapped from the greatest ID to 0, which was free.
C27_Witness ==
    \E r \in Reqs :
        /\ req[r].kind = "create" /\ req[r].pc = "done" /\ req[r].status = 303
        /\ req[r].id = 0 /\ issued = 0
        /\ {0, MaxId} \subseteq DOMAIN campaigns
        /\ campaigns[MaxId].time < campaigns[0].time

\* C28: a create that finds its ID taken fails with the conflict for that
\* ID and leaves the store and next_id alone; while the campaign of next_id
\* is in the store next_id does not move, so every later create meets the
\* same conflict; that campaign leaves the store only by a delete of its ID
\* or by a sweep; and a create that finds next_id free does not meet the
\* conflict and, when it succeeds, returns next_id.
C28_CollisionKeepsId ==
    [][/\ \A r \in Reqs :
             (BuildStep(r) /\ next_id \in DOMAIN campaigns) =>
                /\ req'[r].pc = "done" /\ req'[r].status = 500
                /\ req'[r].err = "conflict" /\ req'[r].id = next_id
                /\ UNCHANGED <<storeVars, issued>>
       /\ next_id \in DOMAIN campaigns =>
             /\ next_id' = next_id
             /\ next_id \notin DOMAIN campaigns' =>
                   \/ \E r \in Reqs : DeleteStep(r) /\ req[r].id = next_id
                   \/ SweepStep
       /\ \A r \in Reqs :
             (BuildStep(r) /\ next_id \notin DOMAIN campaigns) =>
                /\ req'[r].err # "conflict"
                /\ req'[r].pc = "inserted" =>
                      (req'[r].id = next_id /\ next_id \in DOMAIN campaigns')]_vars

\* C28, witness: the last create of one connection failed with the conflict
\* for ID 0, and the last create of the other has returned 0, the ID issued
\* last: next_id stood at 0 from the conflict until campaign 0 was removed,
\* and the create after the removal got ID 0.
C28_Witness ==
    \E r \in Reqs, q \in Reqs :
        /\ req[q].kind = "create" /\ req[q].pc = "done" /\ req[q].status = 500
        /\ req[q].err = "conflict" /\ req[q].id = 0
        /\ req[r].kind = "create" /\ req[r].pc = "done" /\ req[r].status = 303
        /\ req[r].id = 0 /\ issued = 0
====
